---- MODULE Spec2Model ----
(***************************************************************************)
(* POS cash sessions of be-BOP: openPosSession, closePosSession,           *)
(* generateXTicket and calculateDailyIncomes (src/lib/types/PosTabGroup.ts)*)
(* over the posSessions and orders collections.  Every await of the code   *)
(* is a point where another request may run, so each handler is cut into   *)
(* one action per store operation it awaits.                               *)
(*                                                                         *)
(* Amounts are JavaScript numbers (IEEE-754 doubles).  A double is kept    *)
(* exactly, as sign and magnitude, the magnitude an integer count of       *)
(* 2^-59 held in three limbs <<low, mid, high>> of 24 bits (the high limb  *)
(* may grow beyond 24 bits).  Every double of magnitude 0 or in            *)
(* [2^-7, 2^17) is such a count, and so is every sum or difference of two  *)
(* of them before rounding.  NaN, Infinity and -Infinity are values of     *)
(* their own.                                                              *)
(***************************************************************************)
EXTENDS Integers, Sequences, FiniteSets, TLC

----------------------------------------------------------------------------
(* IEEE-754 double arithmetic, round-to-nearest-even *)

LimbBase == 2^24

RECURSIVE BitLen(_)
BitLen(x) == IF x = 0 THEN 0 ELSE 1 + BitLen(x \div 2)

MagZero == <<0, 0, 0>>

MagBits(m) ==
    IF m[3] > 0 THEN 48 + BitLen(m[3])
    ELSE IF m[2] > 0 THEN 24 + BitLen(m[2])
    ELSE BitLen(m[1])

MagLess(a, b) ==
    \/ a[3] < b[3]
    \/ a[3] = b[3] /\ a[2] < b[2]
    \/ a[3] = b[3] /\ a[2] = b[2] /\ a[1] < b[1]

MagAdd(a, b) ==
    LET s1 == a[1] + b[1]
        c1 == s1 \div LimbBase
        s2 == a[2] + b[2] + c1
        c2 == s2 \div LimbBase
    IN  <<s1 % LimbBase, s2 % LimbBase, a[3] + b[3] + c2>>

\* a - b for a >= b
MagSub(a, b) ==
    LET d1 == a[1] - b[1]
        b1 == IF d1 < 0 THEN 1 ELSE 0
        d2 == a[2] - b[2] - b1
        b2 == IF d2 < 0 THEN 1 ELSE 0
    IN  <<d1 + b1 * LimbBase, d2 + b2 * LimbBase, a[3] - b[3] - b2>>

\* bit k of the magnitude m, bit 0 the lowest
MagBit(m, k) == (m[k \div 24 + 1] \div 2^(k % 24)) % 2

\* whether a bit of m below bit k is set
MagLowBits(m, k) ==
    IF k >= 24 THEN m[1] # 0 \/ m[2] % 2^(k - 24) # 0
    ELSE m[1] % 2^k # 0

\* The magnitude m plus a fraction of one unit ("zero", "below", "half" or
\* "above" half a unit), rounded to 53 significant bits, ties to even.
RoundMag(m, frac) ==
    LET d == MagBits(m) - 53
    IN  IF d <= 0
        THEN IF frac = "above" \/ (frac = "half" /\ m[1] % 2 = 1)
             THEN MagAdd(m, <<1, 0, 0>>)
             ELSE m
        ELSE LET kept == IF d <= 24 THEN <<m[1] - (m[1] % 2^d), m[2], m[3]>>
                         ELSE <<0, m[2] - (m[2] % 2^(d - 24)), m[3]>>
                 unit == IF d < 24 THEN <<2^d, 0, 0>>
                         ELSE <<0, 2^(d - 24), 0>>
                 up   == /\ MagBit(m, d - 1) = 1
                         /\ \/ MagLowBits(m, d - 1)
                            \/ frac # "zero"
                            \/ MagBit(m, d) = 1
             IN  IF up THEN MagAdd(kept, unit) ELSE kept

\* a finite double: zero has a sign too
Dbl(neg, m) == [neg |-> neg, m |-> m]

DZero == Dbl(FALSE, MagZero)

NaN == [nan |-> TRUE]

Infinity(neg) == [neg |-> neg, inf |-> TRUE]

IsNaN(x) == "nan" \in DOMAIN x

IsInfinite(x) == "inf" \in DOMAIN x

IsZero(x) == ~IsNaN(x) /\ ~IsInfinite(x) /\ x.m = MagZero

\* -a
DNeg(a) ==
    IF IsNaN(a) THEN NaN
    ELSE IF IsInfinite(a) THEN Infinity(~a.neg)
    ELSE Dbl(~a.neg, a.m)

\* Math.abs(a)
DAbs(a) ==
    IF IsNaN(a) THEN NaN
    ELSE IF IsInfinite(a) THEN Infinity(FALSE)
    ELSE Dbl(FALSE, a.m)

\* a + b: an exact sum of zero is +0, unless both terms are -0
DAdd(a, b) ==
    IF IsNaN(a) \/ IsNaN(b) THEN NaN
    ELSE IF IsInfinite(a)
         THEN IF IsInfinite(b) /\ a.neg # b.neg THEN NaN ELSE a
    ELSE IF IsInfinite(b) THEN b
    ELSE IF a.neg = b.neg
    THEN Dbl(a.neg, RoundMag(MagAdd(a.m, b.m), "zero"))
    ELSE IF a.m = b.m THEN DZero
    ELSE IF MagLess(a.m, b.m)
         THEN Dbl(b.neg, RoundMag(MagSub(b.m, a.m), "zero"))
         ELSE Dbl(a.neg, RoundMag(MagSub(a.m, b.m), "zero"))

\* a - b
DSub(a, b) == DAdd(a, DNeg(b))

\* a === b: NaN equals nothing, -0 and +0 are equal
DStrictEquals(a, b) ==
    IF IsNaN(a) \/ IsNaN(b) THEN FALSE
    ELSE IF IsZero(a) /\ IsZero(b) THEN TRUE
    ELSE a = b

\* a > b: false when either is NaN; -0 and +0 are equal
DGreater(a, b) ==
    IF IsNaN(a) \/ IsNaN(b) THEN FALSE
    ELSE IF IsZero(a) /\ IsZero(b) THEN FALSE
    ELSE IF a.neg # b.neg THEN ~a.neg
    ELSE IF IsInfinite(a) THEN ~a.neg /\ ~IsInfinite(b)
    ELSE IF IsInfinite(b) THEN b.neg
    ELSE IF a.neg THEN MagLess(a.m, b.m) ELSE MagLess(b.m, a.m)

\* The double a decimal literal denotes, the literal given in hundredths
\* (11999 for 119.99, -500 for -5): the quotient |c| * 2^59 / 100 by long
\* division over the limbs, rounded to nearest.
Number(c) ==
    LET a  == IF c < 0 THEN -c ELSE c
        n3 == a * 2^11
        q3 == n3 \div 100
        n2 == (n3 % 100) * LimbBase
        q2 == n2 \div 100
        n1 == (n2 % 100) * LimbBase
        q1 == n1 \div 100
        r  == n1 % 100
        frac == IF r = 0 THEN "zero"
                ELSE IF 2 * r < 100 THEN "below"
                ELSE IF 2 * r = 100 THEN "half" ELSE "above"
    IN  Dbl(c < 0, RoundMag(<<q1, q2, q3>>, frac))

----------------------------------------------------------------------------
(* Bounds and inputs *)

MaxSessions == 2

MaxCashSessions == 1

MaxOrders == 1

MaxIncomeOrders == 2

MaxTime == 1

MaxTickets == 2

Procs == {"p1", "p2"}

None == <<>>

Some(x) == <<x>>

\* PosSessionUser: userId, userLogin, optional userAlias
Alice == [userId |-> 1, userLogin |-> "alice", userAlias |-> Some("Al")]

Bob == [userId |-> 2, userLogin |-> "bob", userAlias |-> None]

Money(c, cur) == [amount |-> Number(c), currency |-> cur]

\* amounts are given as decimal literals, in hundredths
OpenParams(c, u) == [cashOpening |-> Money(c, "EUR"), user |-> u]

Outcome(c) ==
    [category |-> "bank-deposit", amount |-> Number(c), currency |-> "EUR"]

CloseParams(c, outs, j, u) ==
    [cashClosing |-> Money(c, "EUR"),
     outcomes |-> [i \in 1..Len(outs) |-> Outcome(outs[i])],
     cashDeltaJustification |-> j,
     user |-> u]

Payment(method, status, c) ==
    [method |-> method, status |-> status, price |-> Money(c, "EUR")]

\* Inputs of the session life cycle: one opening amount, a close that
\* balances, a close that does not, with and without its justification
LifeOpens == {OpenParams(12000, Alice)}

LifeCloses ==
    { CloseParams(12000, <<>>, None, Bob),
      CloseParams(10000, <<>>, None, Bob),
      CloseParams(10000, <<>>, Some("counted error"), Bob) }

LifeGenerators == {Bob}

\* one call at a time: a close that balances, a close that does not
SeqCloses ==
    { CloseParams(12000, <<>>, None, Bob),
      CloseParams(10000, <<>>, None, Bob) }

\* Inputs of the cash reconciliation
CashOpens == {OpenParams(c, Alice) : c \in {10000, 12000}}

CashCloses ==
    { CloseParams(c, outs, j, Bob) :
        c \in {11999, 12000}, outs \in {<<>>, <<3000>>},
        j \in {None, Some(""), Some("counted error")} }

\* what an order may carry: its status and its payments
CashOrders ==
    { [status |-> "paid",
       payments |-> <<Payment("point-of-sale", "paid", 5000)>>],
      [status |-> "paid",
       payments |-> <<Payment("card", "paid", 2000),
                      Payment("point-of-sale", "paid", 2000),
                      Payment("point-of-sale", "pending", 1000),
                      Payment("point-of-sale", "paid", 3000)>>],
      [status |-> "pending",
       payments |-> <<Payment("point-of-sale", "paid", 5000)>>] }

\* Inputs of the income computation: amounts with cents, whose sums round
\* (0.10 + 0.20 + 0.30 and 0.10 on another method), a pending payment, a
\* pending order
IncomeOrders ==
    { [status |-> "paid",
       payments |-> <<Payment("point-of-sale", "paid", 10),
                      Payment("card", "paid", 10),
                      Payment("point-of-sale", "paid", 20),
                      Payment("point-of-sale", "pending", 1000),
                      Payment("point-of-sale", "paid", 30)>>],
      [status |-> "paid",
       payments |-> <<Payment("point-of-sale", "paid", 1999)>>],
      [status |-> "pending",
       payments |-> <<Payment("point-of-sale", "paid", 5000)>>] }

\* Inputs of the sessions over time: a justified close, a cash payment
PayCloses == {CloseParams(12000, <<>>, Some("counted error"), Bob)}

PayOrders ==
    { [status |-> "paid",
       payments |-> <<Payment("point-of-sale", "paid", 5000)>>] }

----------------------------------------------------------------------------
(* State *)

VARIABLES
    runtimeConfig,  \* posSessionsEnabled, posCashDeltaJustificationMandatory
    posSessions,    \* collections.posSessions, in insertion order
    orders,         \* collections.orders, in insertion order
    now,            \* the clock read by new Date()
    nextId,         \* the next value new ObjectId() returns
    pc,             \* per request: the await it is suspended at, or "idle"
    call,           \* per request: parameters and locals of the running call
    res             \* outcome of the call that completed last

vars == <<runtimeConfig, posSessions, orders, now, nextId, pc, call, res>>

NoCall == [op |-> "none"]

NoRes == [op |-> "none", kind |-> "none"]

----------------------------------------------------------------------------
(* Store queries *)

Ids(sessions) == {sessions[i]._id : i \in 1..Len(sessions)}

\* collections.posSessions.findOne({ _id: id }): a one-element or empty set
FindById(sessions, id) ==
    {sessions[i] : i \in {j \in 1..Len(sessions) : sessions[j]._id = id}}

\* findOne({ status: 'active' }, { sort: { openedAt: -1 } }): the documents
\* the query may return (the order among equal openedAt is the store's choice)
GetCurrentPosSession(sessions) ==
    LET active == {i \in 1..Len(sessions) : sessions[i].status = "active"}
    IN  {sessions[i] : i \in {j \in active :
            \A k \in active : sessions[k].openedAt <= sessions[j].openedAt}}

\* findOne({ status: 'closed' }, { sort: { closedAt: -1 } })
GetLastClosedSession(sessions) ==
    LET closed == {i \in 1..Len(sessions) : sessions[i].status = "closed"}
    IN  {sessions[i] : i \in {j \in closed :
            \A k \in closed : sessions[k].closedAt[1] <= sessions[j].closedAt[1]}}

\* replaceOne({ _id: id }, doc)
ReplaceOne(sessions, id, doc) ==
    [i \in 1..Len(sessions) |->
        IF sessions[i]._id = id THEN doc ELSE sessions[i]]

MutPushXTicket(sessions, id, entry, updatedAt) ==
    [i \in 1..Len(sessions) |->
        IF sessions[i]._id = id
        THEN [sessions[i] EXCEPT !.xTickets = <<entry>>,
                                 !.updatedAt = updatedAt]
        ELSE sessions[i]]

MutReopenPushXTicket(sessions, id, entry, updatedAt) ==
    [i \in 1..Len(sessions) |->
        IF sessions[i]._id = id
        THEN [sessions[i] EXCEPT !.xTickets = Append(@, entry),
                                 !.status = "active",
                                 !.updatedAt = updatedAt]
        ELSE sessions[i]]

\* updateOne({ _id: id }, { $push: { xTickets: entry }, $set: { updatedAt } })
PushXTicket(sessions, id, entry, updatedAt) ==
    [i \in 1..Len(sessions) |->
        IF sessions[i]._id = id
        THEN [sessions[i] EXCEPT !.xTickets = Append(@, entry),
                                 !.updatedAt = updatedAt]
        ELSE sessions[i]]

----------------------------------------------------------------------------
(* calculateDailyIncomes *)

RECURSIVE FlatPayments(_)
FlatPayments(ords) ==
    IF ords = <<>> THEN <<>>
    ELSE Head(ords).payments \o FlatPayments(Tail(ords))

\* incomes.get(method) / incomes.set(method, ...) over the Map, kept as the
\* sequence of its entries in insertion order
HasMethod(incomes, method) ==
    \E i \in 1..Len(incomes) : incomes[i].paymentMethod = method

AddPayment(incomes, payment) ==
    IF HasMethod(incomes, payment.method)
    THEN [i \in 1..Len(incomes) |->
            IF incomes[i].paymentMethod = payment.method
            THEN [incomes[i] EXCEPT !.amount = DAdd(@, payment.price.amount)]
            ELSE incomes[i]]
    ELSE Append(incomes, [paymentMethod |-> payment.method,
                          amount |-> payment.price.amount,
                          currency |-> payment.price.currency])

RECURSIVE FoldPayments(_, _)
FoldPayments(incomes, payments) ==
    IF payments = <<>> THEN incomes
    ELSE FoldPayments(AddPayment(incomes, Head(payments)), Tail(payments))

MutCalculateDailyIncomes(session, ords) ==
    LET found == SelectSeq(ords, LAMBDA o : o.status = "paid")
        paidPayments == SelectSeq(FlatPayments(found), LAMBDA p : p.status = "paid")
    IN  FoldPayments(<<>>, paidPayments)

CalculateDailyIncomes(session, ords) ==
    LET found == SelectSeq(ords, LAMBDA o :
                    o.createdAt >= session.openedAt /\ o.status = "paid")
        paidPayments == SelectSeq(FlatPayments(found), LAMBDA p : p.status = "paid")
    IN  FoldPayments(<<>>, paidPayments)

----------------------------------------------------------------------------
(* openPosSession *)

\* openedAt, createdAt and updatedAt are three readings of the clock
NewSession(id, params, openedAt, createdAt, updatedAt) ==
    [_id |-> id, status |-> "active",
     openedAt |-> openedAt, openedBy |-> params.user,
     closedAt |-> None, closedBy |-> None,
     cashOpening |-> params.cashOpening,
     cashClosing |-> None, cashClosingTheoretical |-> None,
     cashDelta |-> None, cashDeltaJustification |-> None,
     dailyIncomes |-> <<>>, dailyOutcomes |-> <<>>, xTickets |-> <<>>,
     createdAt |-> createdAt, updatedAt |-> updatedAt]

MutOpenRejection(config, sessions) ==
    IF ~config.posSessionsEnabled THEN "NotEnabled" ELSE "none"

\* the rejection of an open, or "none"
OpenRejection(config, sessions) ==
    IF ~config.posSessionsEnabled THEN "NotEnabled"
    ELSE IF GetCurrentPosSession(sessions) # {} THEN "AlreadyActive"
    ELSE "none"

\* yesterdayClosing && (amount or currency differ): console.warn
OpeningMismatch(last, cashOpening) ==
    /\ last.cashClosing # None
    /\ \/ ~DStrictEquals(last.cashClosing[1].amount, cashOpening.amount)
       \/ last.cashClosing[1].currency # cashOpening.currency

Finish(p, r) ==
    /\ pc' = [pc EXCEPT ![p] = "idle"]
    /\ call' = [call EXCEPT ![p] = NoCall]
    /\ res' = r

Suspend(p, at, c) ==
    /\ pc' = [pc EXCEPT ![p] = at]
    /\ call' = [call EXCEPT ![p] = c]
    /\ res' = res

\* what new Date() may answer to a call that runs until the clock shows
\* `until`: the clock does not go back, and a reading leaves the clock at
\* the time read
Readings(from, until) == from..until

\* ids drawn by new ObjectId() so far, plus the opens about to draw one
OpensInFlight == Cardinality({q \in Procs : pc[q] = "open_getLast"})

\* the call, up to the answer of getCurrentPosSession()
OpenPosSession(p, inputs, maxSessions) ==
    /\ pc[p] = "idle"
    /\ \E params \in inputs :
        LET why == OpenRejection(runtimeConfig, posSessions)
        IN  IF why # "none"
            THEN Finish(p, [op |-> "open", kind |-> why, sessionId |-> 0])
            ELSE /\ nextId + OpensInFlight <= maxSessions
                 /\ Suspend(p, "open_getLast",
                            [op |-> "open", params |-> params])
    /\ UNCHANGED <<runtimeConfig, posSessions, orders, now, nextId>>

\* the answer of getLastClosedSession(); the session object is built
OpenGetLast(p, until) ==
    /\ pc[p] = "open_getLast"
    /\ \E openedAt \in Readings(now, until) :
       \E createdAt \in Readings(openedAt, until) :
       \E updatedAt \in Readings(createdAt, until) :
       LET lasts == GetLastClosedSession(posSessions)
           session == NewSession(nextId, call[p].params,
                                 openedAt, createdAt, updatedAt)
       IN  \E warned \in BOOLEAN :
            /\ IF lasts = {} THEN ~warned
               ELSE \E last \in lasts :
                      warned = OpeningMismatch(last, call[p].params.cashOpening)
            /\ Suspend(p, "open_insert",
                       [op |-> "open", session |-> session, warned |-> warned])
            /\ now' = updatedAt
    /\ nextId' = nextId + 1
    /\ UNCHANGED <<runtimeConfig, posSessions, orders>>

\* insertOne(session)
OpenInsert(p) ==
    /\ pc[p] = "open_insert"
    /\ posSessions' = Append(posSessions, call[p].session)
    /\ Finish(p, [op |-> "open", kind |-> "ok",
                  sessionId |-> call[p].session._id])
    /\ UNCHANGED <<runtimeConfig, orders, now, nextId>>

----------------------------------------------------------------------------
(* closePosSession *)

CashPaymentMethod == "point-of-sale"

\* incomesMap.get('point-of-sale')?.amount ?? 0
CashIncome(incomes) ==
    IF HasMethod(incomes, CashPaymentMethod)
    THEN (CHOOSE e \in {incomes[i] : i \in 1..Len(incomes)} :
            e.paymentMethod = CashPaymentMethod).amount
    ELSE DZero

\* params.outcomes.reduce((sum, outcome) => sum + outcome.amount, 0)
RECURSIVE SumAmounts(_, _)
SumAmounts(sum, items) ==
    IF items = <<>> THEN sum
    ELSE SumAmounts(DAdd(sum, Head(items).amount), Tail(items))

TotalOutcomes(outcomes) == SumAmounts(DZero, outcomes)

MutCashClosingTheoretical(session, incomes, outcomes) ==
    [amount |-> DSub(DAdd(session.cashOpening.amount,
                          SumAmounts(DZero, incomes)),
                     TotalOutcomes(outcomes)),
     currency |-> session.cashOpening.currency]

CashClosingTheoretical(session, incomes, outcomes) ==
    [amount |-> DSub(DAdd(session.cashOpening.amount, CashIncome(incomes)),
                     TotalOutcomes(outcomes)),
     currency |-> session.cashOpening.currency]

CashDelta(session, cashClosing, theoretical) ==
    [amount |-> DSub(cashClosing.amount, theoretical.amount),
     currency |-> session.cashOpening.currency]

\* the literal 0.01
DeltaTolerance == Number(1)

\* !params.cashDeltaJustification
Falsy(justification) == justification = None \/ justification = Some("")

MutJustificationRequired(cashDelta, justification) ==
    DGreater(DAbs(cashDelta.amount), DeltaTolerance) /\ justification = None

\* Math.abs(cashDelta.amount) > 0.01 && !params.cashDeltaJustification
JustificationRequired(cashDelta, justification) ==
    DGreater(DAbs(cashDelta.amount), DeltaTolerance) /\ Falsy(justification)

MutCloseRejection(found) ==
    IF found = {} THEN "NotFound" ELSE "none"

\* the rejection of a close on what findOne({ _id }) answered, or "none"
CloseRejection(found) ==
    IF found = {} THEN "NotFound"
    ELSE IF \E s \in found : s.status = "closed" THEN "AlreadyClosed"
    ELSE "none"

MutUpdatedSession(session, params, incomes, closedAt, updatedAt) ==
    LET theoretical == CashClosingTheoretical(session, incomes, params.outcomes)
        cashDelta == CashDelta(session, params.cashClosing, theoretical)
    IN  [session EXCEPT
            !.status = "closed",
            !.closedAt = Some(closedAt),
            !.cashClosing = Some(params.cashClosing),
            !.cashClosingTheoretical = Some(theoretical),
            !.cashDelta = Some(cashDelta),
            !.cashDeltaJustification = params.cashDeltaJustification,
            !.dailyIncomes = incomes,
            !.dailyOutcomes = params.outcomes,
            !.updatedAt = updatedAt]

\* closedAt and updatedAt are two readings of the clock
UpdatedSession(session, params, incomes, closedAt, updatedAt) ==
    LET theoretical == CashClosingTheoretical(session, incomes, params.outcomes)
        cashDelta == CashDelta(session, params.cashClosing, theoretical)
    IN  [session EXCEPT
            !.status = "closed",
            !.closedAt = Some(closedAt),
            !.closedBy = Some(params.user),
            !.cashClosing = Some(params.cashClosing),
            !.cashClosingTheoretical = Some(theoretical),
            !.cashDelta = Some(cashDelta),
            !.cashDeltaJustification = params.cashDeltaJustification,
            !.dailyIncomes = incomes,
            !.dailyOutcomes = params.outcomes,
            !.updatedAt = updatedAt]

\* the call, up to the answer of findOne({ _id: params.sessionId })
ClosePosSession(p, inputs, maxSessions) ==
    /\ pc[p] = "idle"
    /\ \E id \in 1..maxSessions, given \in inputs :
        LET params == [sessionId |-> id] @@ given
            found == FindById(posSessions, id)
            why == CloseRejection(found)
        IN  IF why # "none"
            THEN Finish(p, [op |-> "close", kind |-> why, sessionId |-> id])
            ELSE Suspend(p, "close_orders",
                         [op |-> "close", params |-> params,
                          session |-> CHOOSE s \in found : TRUE])
    /\ UNCHANGED <<runtimeConfig, posSessions, orders, now, nextId>>

MutCloseOrders(p, until) ==
    /\ pc[p] = "close_orders"
    /\ LET params == call[p].params
           session == call[p].session
           incomes == CalculateDailyIncomes(session, orders)
           theoretical ==
               CashClosingTheoretical(session, incomes, params.outcomes)
           cashDelta == CashDelta(session, params.cashClosing, theoretical)
       IN  \E closedAt \in Readings(now, until) : \E updatedAt \in Readings(closedAt, until) :
           LET updated == UpdatedSession(session, params, incomes,
                                         closedAt, updatedAt)
           IN  /\ now' = updatedAt
               /\ IF JustificationRequired(cashDelta,
                                           params.cashDeltaJustification)
                  THEN /\ posSessions' = ReplaceOne(posSessions,
                                                    params.sessionId, updated)
                       /\ Finish(p, [op |-> "close",
                                     kind |-> "JustificationRequired",
                                     sessionId |-> params.sessionId])
                  ELSE /\ Suspend(p, "close_replace",
                                  [op |-> "close", params |-> params,
                                   updatedSession |-> updated])
                       /\ UNCHANGED posSessions
    /\ UNCHANGED <<runtimeConfig, orders, nextId>>

\* the answer of orders.find(...).toArray(); delta and justification check
CloseOrders(p, until) ==
    /\ pc[p] = "close_orders"
    /\ LET params == call[p].params
           session == call[p].session
           incomes == CalculateDailyIncomes(session, orders)
           theoretical ==
               CashClosingTheoretical(session, incomes, params.outcomes)
           cashDelta == CashDelta(session, params.cashClosing, theoretical)
       IN  IF JustificationRequired(cashDelta, params.cashDeltaJustification)
           THEN /\ Finish(p, [op |-> "close", kind |-> "JustificationRequired",
                              sessionId |-> params.sessionId])
                /\ now' = now
           ELSE \E closedAt \in Readings(now, until) :
                \E updatedAt \in Readings(closedAt, until) :
                    /\ Suspend(p, "close_replace",
                               [op |-> "close", params |-> params,
                                updatedSession |->
                                    UpdatedSession(session, params, incomes,
                                                   closedAt, updatedAt)])
                    /\ now' = updatedAt
    /\ UNCHANGED <<runtimeConfig, posSessions, orders, nextId>>

\* replaceOne({ _id: params.sessionId }, updatedSession)
CloseReplace(p) ==
    /\ pc[p] = "close_replace"
    /\ posSessions' = ReplaceOne(posSessions, call[p].params.sessionId,
                                 call[p].updatedSession)
    /\ Finish(p, [op |-> "close", kind |-> "ok",
                  sessionId |-> call[p].params.sessionId])
    /\ UNCHANGED <<runtimeConfig, orders, now, nextId>>

----------------------------------------------------------------------------
(* routes/(app)/pos/closing: the form action that calls closePosSession *)

\* what formData.get(name) answers: the text of the field, or null when the
\* form has no such field
FormText(t) == [kind |-> "text", t |-> t]

FormNull == [kind |-> "null"]

CharAt(s, i) == SubSeq(s, i, i)

\* The field texts of the model are ASCII texts: the printable characters
\* (without the backquote, which a string of a module does not hold) and the
\* white space ones.
AsciiChars ==
    LET printable ==
            " !\"#$%&'()*+,-./0123456789:;<=>?@ABCDEFGHIJKLMNOP"
             \o "QRSTUVWXYZ[\\]^_abcdefghijklmnopqrstuvwxyz{|}~"
    IN  {CharAt(printable, i) : i \in 1..Len(printable)}
            \cup {"\t", "\n", "", "\f", "\r"}

\* the StrWhiteSpaceChar characters of ASCII, which Number() and trim()
\* skip: SP, TAB, LF, VT (U+000B), FF, CR. The other ones (NBSP, U+1680,
\* U+2000..U+200A, U+2028, U+2029, U+202F, U+205F, U+3000, U+FEFF) are
\* beyond ASCII.
AsciiWhiteSpace == {" ", "\t", "\n", "", "\f", "\r"}

\* a text with a character beyond ASCII
NonAscii(s) == \E i \in 1..Len(s) : CharAt(s, i) \notin AsciiChars

\* a text or a number the model keeps no value for: a text that is not
\* ASCII, a number of more than two decimals, or 10485.76 and above
OutOfRange == CHOOSE x \in {} : TRUE

RECURSIVE TrimStart(_)
TrimStart(s) ==
    IF NonAscii(s) THEN OutOfRange
    ELSE IF s # "" /\ Head(s) \in AsciiWhiteSpace THEN TrimStart(Tail(s))
    ELSE s

RECURSIVE TrimEnd(_)
TrimEnd(s) ==
    IF NonAscii(s) THEN OutOfRange
    ELSE IF s # "" /\ CharAt(s, Len(s)) \in AsciiWhiteSpace
    THEN TrimEnd(SubSeq(s, 1, Len(s) - 1))
    ELSE s

\* the digits of a base up to 16, with the value of each
IsDigit(c, base) ==
    \E i \in 1..base : c \in {CharAt("0123456789abcdef", i),
                              CharAt("0123456789ABCDEF", i)}

DigitValue(c) ==
    (CHOOSE i \in 1..16 : c \in {CharAt("0123456789abcdef", i),
                                 CharAt("0123456789ABCDEF", i)}) - 1

\* the length of the longest prefix of s made of digits
RECURSIVE DigitsLen(_, _)
DigitsLen(s, base) ==
    IF s # "" /\ IsDigit(Head(s), base) THEN 1 + DigitsLen(Tail(s), base)
    ELSE 0

AllDigits(s, base) == s # "" /\ DigitsLen(s, base) = Len(s)

RECURSIVE DigitsValue(_, _)
DigitsValue(s, base) ==
    IF s = "" THEN 0
    ELSE DigitsValue(SubSeq(s, 1, Len(s) - 1), base) * base
            + DigitValue(CharAt(s, Len(s)))

\* the double of a natural number
IntegerToDouble(n) ==
    IF n = 0 THEN DZero
    ELSE IF n * 100 >= 2^20 THEN OutOfRange
    ELSE Number(n * 100)

\* the double of digits * 10^exp10: beyond the largest double it is
\* Infinity, below half the smallest one it is zero
DecimalToDouble(neg, digits, exp10) ==
    LET d == DigitsValue(digits, 10)
        c == IF exp10 >= 5 THEN -1
             ELSE IF exp10 >= -2 THEN d * 10^(exp10 + 2)
             ELSE IF exp10 < -11 THEN -1
             ELSE IF d % 10^(-2 - exp10) = 0 THEN d \div 10^(-2 - exp10)
             ELSE -1
    IN  IF d = 0 THEN Dbl(neg, MagZero)
        ELSE IF exp10 > 308 THEN Infinity(neg)
        ELSE IF exp10 + Len(digits) < -324 THEN Dbl(neg, MagZero)
        ELSE IF c < 0 \/ c >= 2^20 THEN OutOfRange
        ELSE IF neg THEN Number(-c) ELSE Number(c)

\* StrUnsignedDecimalLiteral: digits, an optional fraction, an optional
\* exponent, with a digit before or after the point
StrDecimalLiteral(neg, t) ==
    LET n1 == DigitsLen(t, 10)
        r1 == SubSeq(t, n1 + 1, Len(t))
        hasDot == r1 # "" /\ Head(r1) = "."
        afterDot == IF hasDot THEN Tail(r1) ELSE r1
        n2 == IF hasDot THEN DigitsLen(afterDot, 10) ELSE 0
        r2 == SubSeq(afterDot, n2 + 1, Len(afterDot))
        hasExp == r2 # "" /\ Head(r2) \in {"e", "E"}
        e1 == IF hasExp THEN Tail(r2) ELSE ""
        signed == e1 # "" /\ Head(e1) \in {"+", "-"}
        e2 == IF signed THEN Tail(e1) ELSE e1
        exp == IF signed /\ Head(e1) = "-" THEN -DigitsValue(e2, 10)
               ELSE DigitsValue(e2, 10)
    IN  IF n1 + n2 = 0 THEN NaN
        ELSE IF hasExp /\ ~AllDigits(e2, 10) THEN NaN
        ELSE IF ~hasExp /\ r2 # "" THEN NaN
        ELSE DecimalToDouble(neg, SubSeq(t, 1, n1) \o SubSeq(afterDot, 1, n2),
                             exp - n2)

\* 0x, 0o and 0b literals
NonDecimalBase(t) ==
    IF Len(t) < 2 \/ CharAt(t, 1) # "0" THEN 0
    ELSE IF CharAt(t, 2) \in {"x", "X"} THEN 16
    ELSE IF CharAt(t, 2) \in {"o", "O"} THEN 8
    ELSE IF CharAt(t, 2) \in {"b", "B"} THEN 2
    ELSE 0

\* Number(text): StringToNumber of the language
StringToNumber(s) ==
    LET t == TrimEnd(TrimStart(s))
        base == NonDecimalBase(t)
    IN  IF t = "" THEN DZero
        ELSE IF base # 0
        THEN IF AllDigits(SubSeq(t, 3, Len(t)), base)
             THEN IntegerToDouble(DigitsValue(SubSeq(t, 3, Len(t)), base))
             ELSE NaN
        ELSE LET neg == Head(t) = "-"
                 u == IF Head(t) \in {"+", "-"} THEN Tail(t) ELSE t
             IN  IF u = "Infinity" THEN Infinity(neg)
                 ELSE StrDecimalLiteral(neg, u)

\* Number(formData.get(name)): Number(null) is 0
NumberOfField(v) == IF v = FormNull THEN DZero ELSE StringToNumber(v.t)

\* String(formData.get(name)): String(null) is "null"
StringOfField(v) == IF v = FormNull THEN "null" ELSE v.t

\* the hex text of an id, and new ObjectId(text): the text has to be 24
\* hex digits
ObjectIdText(id) ==
    "00000000000000000000000" \o CharAt("0123456789abcdef", id + 1)

IsObjectIdText(s) == Len(s) = 24 /\ AllDigits(s, 16)

ObjectIdOf(s) == DigitsValue(s, 16)

\* isNaN(amount) || amount < 0
InvalidAmount(x) == IsNaN(x) \/ DGreater(DZero, x)

\* the forms posted to the closing page
CloseForms(maxSessions) ==
    [user : {Some(Bob), None},
     sessionId : {FormText(ObjectIdText(id)) : id \in 1..maxSessions}
                    \cup {FormText("not-an-id"), FormNull},
     cashClosingAmount : {FormText(t) : t \in
                            {"120.00", "-5.00", "abc", "", " ", "Infinity",
                             "0x10", "1e2", "120.00 ", "-0"}}
                            \cup {FormNull},
     bankDepositAmount : {FormText(t) : t \in {"0", "-1.00", "abc", " "}},
     justification : {FormNull, FormText("counted error")},
     currency : {FormText("EUR")}]

\* actions.default, up to the answer of closePosSession's findOne; the
\* call then goes on as any closePosSession call
ActionsDefault(p, forms) ==
    /\ pc[p] = "idle"
    /\ \E form \in forms :
        LET sessionIdText == StringOfField(form.sessionId)
            cashClosingAmount == NumberOfField(form.cashClosingAmount)
            bankDepositAmount == NumberOfField(form.bankDepositAmount)
            justification == IF form.justification = FormNull THEN ""
                             ELSE StringOfField(form.justification)
            currency == StringOfField(form.currency)
        IN  IF form.user = None
            THEN Finish(p, [op |-> "close", kind |-> "Unauthorized",
                            form |-> form])
            ELSE IF ~IsObjectIdText(sessionIdText)
            THEN Finish(p, [op |-> "close", kind |-> "BSONError",
                            form |-> form])
            ELSE IF \/ InvalidAmount(cashClosingAmount)
                    \/ InvalidAmount(bankDepositAmount)
            THEN Finish(p, [op |-> "close", kind |-> "InvalidInput",
                            sessionId |-> ObjectIdOf(sessionIdText),
                            form |-> form])
            ELSE
            LET id == ObjectIdOf(sessionIdText)
                params ==
                    [sessionId |-> id,
                     cashClosing |-> [amount |-> cashClosingAmount,
                                      currency |-> currency],
                     outcomes |-> <<[category |-> "bank-deposit",
                                     amount |-> bankDepositAmount,
                                     currency |-> currency]>>,
                     cashDeltaJustification |->
                        IF justification = "" THEN None
                        ELSE Some(justification),
                     user |-> form.user[1]]
                found == FindById(posSessions, id)
                why == CloseRejection(found)
            IN  IF why # "none"
                THEN Finish(p, [op |-> "close", kind |-> why,
                                sessionId |-> id, form |-> form])
                ELSE Suspend(p, "close_orders",
                             [op |-> "close", params |-> params,
                              session |-> CHOOSE x \in found : TRUE,
                              form |-> form])
    /\ UNCHANGED <<runtimeConfig, posSessions, orders, now, nextId>>

----------------------------------------------------------------------------
(* generateXTicket *)

\* the rejection of an X ticket on what findOne({ _id }) answered, or "none"
XTicketRejection(found) ==
    IF found = {} THEN "NotFound"
    ELSE IF \E s \in found : s.status # "active" THEN "NotActive"
    ELSE "none"

\* X tickets being generated for the session
XTicketsInFlight(id) ==
    Cardinality({q \in Procs : /\ pc[q] \in {"xticket_orders", "xticket_update"}
                               /\ call[q].params.sessionId = id})

\* the call, up to the answer of findOne({ _id: params.sessionId })
GenerateXTicket(p, inputs, maxSessions) ==
    /\ pc[p] = "idle"
    /\ \E id \in 1..maxSessions, u \in inputs :
        LET params == [sessionId |-> id, user |-> u]
            found == FindById(posSessions, id)
            why == XTicketRejection(found)
        IN  IF why # "none"
            THEN Finish(p, [op |-> "xticket", kind |-> why, sessionId |-> id])
            ELSE /\ \A s \in found :
                        Len(s.xTickets) + XTicketsInFlight(id) < MaxTickets
                 /\ Suspend(p, "xticket_orders",
                            [op |-> "xticket", params |-> params,
                             session |-> CHOOSE s \in found : TRUE])
    /\ UNCHANGED <<runtimeConfig, posSessions, orders, now, nextId>>

\* the answer of orders.find(...).toArray(); the update is built, with two
\* readings of the clock, and sent
XTicketOrders(p, until) ==
    /\ pc[p] = "xticket_orders"
    /\ \E generatedAt \in Readings(now, until) : \E updatedAt \in Readings(generatedAt, until) :
        /\ Suspend(p, "xticket_update",
                   [call[p] EXCEPT !.op = "xticket"] @@
                   [incomesMap |->
                        CalculateDailyIncomes(call[p].session, orders),
                    entry |-> [generatedAt |-> generatedAt,
                               generatedBy |-> call[p].params.user],
                    updatedAt |-> updatedAt])
        /\ now' = updatedAt
    /\ UNCHANGED <<runtimeConfig, posSessions, orders, nextId>>

\* user.userAlias || user.userLogin || user.userId
DisplayName(user) ==
    IF user.userAlias # None /\ user.userAlias # Some("") THEN user.userAlias[1]
    ELSE IF user.userLogin # "" THEN user.userLogin
    ELSE user.userId

\* x.toFixed(2), as the number of hundredths it prints: the magnitude times
\* 100, rounded to the nearest integer, the larger one on a tie
ToFixed2(x) ==
    LET t0 == x.m[1] * 100
        t1 == x.m[2] * 100 + t0 \div LimbBase
        t2 == x.m[3] * 100 + t1 \div LimbBase
        n == t2 \div 2^11 + (IF t2 % 2^11 >= 2^10 THEN 1 ELSE 0)
    IN  IF x.neg THEN -n ELSE n

\* the text of an X ticket, as its lines: header, opening line, current
\* time line, one line per income, total line; t is the new Date() of the
\* current time line
GenerateXTicketText(config, session, incomesMap, t) ==
    [header |-> <<config.brandName, "X ticket">>,
     openingTime |-> session.openedAt,
     openingBy |-> DisplayName(session.openedBy),
     currentTime |-> t,
     currentBy |-> DisplayName(session.openedBy),
     incomeLines |-> [i \in 1..Len(incomesMap) |->
                        [method |-> incomesMap[i].paymentMethod,
                         amount |-> ToFixed2(incomesMap[i].amount),
                         currency |-> incomesMap[i].currency]],
     total |-> [amount |-> ToFixed2(SumAmounts(DZero, incomesMap)),
                currency |-> session.cashOpening.currency]]

\* updateOne({ _id }, { $push: { xTickets }, $set: { updatedAt } }), and
\* the text returned
XTicketUpdate(p, until) ==
    /\ pc[p] = "xticket_update"
    /\ posSessions' = PushXTicket(posSessions, call[p].params.sessionId,
                                  call[p].entry, call[p].updatedAt)
    /\ \E t \in Readings(now, until) :
        /\ Finish(p, [op |-> "xticket", kind |-> "ok",
                      sessionId |-> call[p].params.sessionId,
                      text |-> GenerateXTicketText(runtimeConfig,
                                                   call[p].session,
                                                   call[p].incomesMap, t)])
        /\ now' = t
    /\ UNCHANGED <<runtimeConfig, orders, nextId>>

----------------------------------------------------------------------------
(* Environment: the clock, and orders recorded by the order subsystem *)

Tick ==
    /\ now < MaxTime
    /\ now' = now + 1
    /\ UNCHANGED <<runtimeConfig, posSessions, orders, nextId, pc, call, res>>

RecordOrderUpTo(inputs, maxOrders) ==
    /\ Len(orders) < maxOrders
    /\ \E k \in inputs :
        orders' = Append(orders, [createdAt |-> now, status |-> k.status,
                                  payments |-> k.payments])
    /\ UNCHANGED <<runtimeConfig, posSessions, now, nextId, pc, call, res>>

RecordOrder(inputs) == RecordOrderUpTo(inputs, MaxOrders)

----------------------------------------------------------------------------
(* Specifications *)

Configs ==
    [posSessionsEnabled : BOOLEAN, posCashDeltaJustificationMandatory : BOOLEAN,
     brandName : {"be-BOP"}]

InitWith(configs) ==
    /\ runtimeConfig \in configs
    /\ posSessions = <<>>
    /\ orders = <<>>
    /\ now = 0
    /\ nextId = 1
    /\ pc = [p \in Procs |-> "idle"]
    /\ call = [p \in Procs |-> NoCall]
    /\ res = NoRes

\* a running call resumes at the await it is suspended at, and runs until
\* the clock shows `until` at the latest
OpenStep(p, until) == OpenGetLast(p, until) \/ OpenInsert(p)

CloseStep(p, until) == CloseOrders(p, until) \/ CloseReplace(p)

XTicketStep(p, until) == XTicketOrders(p, until) \/ XTicketUpdate(p, until)

AllIdle == \A q \in Procs : pc[q] = "idle"

\* The session life cycle, requests served concurrently within one reading
\* of the clock: any request may run at any await of another.
Init == InitWith({c \in Configs : c.posCashDeltaJustificationMandatory})

Next ==
    \E p \in Procs :
        \/ OpenPosSession(p, LifeOpens, MaxSessions)
        \/ ClosePosSession(p, LifeCloses, MaxSessions)
        \/ GenerateXTicket(p, LifeGenerators, MaxSessions)
        \/ OpenStep(p, now) \/ CloseStep(p, now) \/ XTicketStep(p, now)

Spec == Init /\ [][Next]_vars

\* Opens and closes alone, served concurrently.
NextRace ==
    \E p \in Procs :
        \/ OpenPosSession(p, LifeOpens, MaxSessions)
        \/ ClosePosSession(p, LifeCloses, MaxSessions)
        \/ OpenStep(p, now) \/ CloseStep(p, now)

SpecRace == Init /\ [][NextRace]_vars

\* Opens, closes and X tickets of one session, served concurrently.
NextLife ==
    \E p \in Procs :
        \/ OpenPosSession(p, LifeOpens, MaxCashSessions)
        \/ ClosePosSession(p, SeqCloses, MaxCashSessions)
        \/ GenerateXTicket(p, LifeGenerators, MaxCashSessions)
        \/ OpenStep(p, now) \/ CloseStep(p, now) \/ XTicketStep(p, now)

SpecLife == Init /\ [][NextLife]_vars

\* The life cycle over time, each call running to completion before the
\* next starts.
Caller == CHOOSE p \in Procs : TRUE

NextSeq ==
    \/ AllIdle /\ OpenPosSession(Caller, LifeOpens, MaxSessions)
    \/ AllIdle /\ ClosePosSession(Caller, SeqCloses, MaxSessions)
    \/ AllIdle /\ GenerateXTicket(Caller, LifeGenerators, MaxSessions)
    \/ OpenStep(Caller, MaxTime) \/ CloseStep(Caller, MaxTime)
    \/ XTicketStep(Caller, MaxTime)
    \/ Tick

SpecSeq == Init /\ [][NextSeq]_vars

\* The cash reconciliation at closing: opening amounts, orders and their
\* payments, declared amounts, outcomes and justifications, under both
\* settings of posCashDeltaJustificationMandatory, one call at a time.
InitCash == InitWith(Configs)

NextCash ==
    \/ AllIdle /\ OpenPosSession(Caller, CashOpens, MaxCashSessions)
    \/ AllIdle /\ ClosePosSession(Caller, CashCloses, MaxCashSessions)
    \/ OpenStep(Caller, now) \/ CloseStep(Caller, now)
    \/ RecordOrder(CashOrders)

SpecCash == InitCash /\ [][NextCash]_vars

\* Sessions and payments over time, requests served concurrently.
NextPay ==
    \/ \E p \in Procs :
        \/ OpenPosSession(p, LifeOpens, MaxSessions)
        \/ ClosePosSession(p, PayCloses, MaxSessions)
        \/ OpenStep(p, MaxTime) \/ CloseStep(p, MaxTime)
    \/ RecordOrderUpTo(PayOrders, MaxOrders)
    \/ Tick

SpecPay == Init /\ [][NextPay]_vars

\* The closing page: forms posted one at a time on the sessions opened.
NextForm ==
    \/ AllIdle /\ OpenPosSession(Caller, LifeOpens, MaxCashSessions)
    \/ AllIdle /\ ActionsDefault(Caller, CloseForms(MaxCashSessions))
    \/ OpenStep(Caller, now) \/ CloseStep(Caller, now)

SpecForm == Init /\ [][NextForm]_vars

\* The incomes of a session over time: orders recorded before and after its
\* opening, paid or not, read by the X tickets generated on it.
NextIncome ==
    \/ AllIdle /\ OpenPosSession(Caller, LifeOpens, MaxCashSessions)
    \/ AllIdle /\ GenerateXTicket(Caller, LifeGenerators, MaxCashSessions)
    \/ OpenStep(Caller, MaxTime) \/ XTicketStep(Caller, MaxTime)
    \/ RecordOrderUpTo(IncomeOrders, MaxIncomeOrders)
    \/ Tick

SpecIncome == Init /\ [][NextIncome]_vars

----------------------------------------------------------------------------
(* Properties *)

ActiveSessions ==
    {i \in 1..Len(posSessions) : posSessions[i].status = "active"}

StoredStatus(id) == {s.status : s \in FindById(posSessions, id)}

\* C1: when every call runs to completion before the next starts, the
\* store holds at most one session with status active.
C1_SingleActive == Cardinality(ActiveSessions) <= 1

\* a session was opened, given an X ticket and closed, and another opened
C1_Witness ==
    /\ Len(posSessions) = 2
    /\ posSessions[1].status = "closed"
    /\ posSessions[1].xTickets # <<>>
    /\ posSessions[2].status = "active"

\* C2: two interleaved opens never both succeed: no two stored sessions
\* are active together.
C2_OpensNeverBothSucceed ==
    \A i, j \in 1..Len(posSessions) :
        (posSessions[i].status = "active" /\ posSessions[j].status = "active")
            => i = j

\* C3: the replace of a close is conditioned on the stored session still
\* being active: a close completes its replace only on a session stored as
\* active, so of two interleaved closes of one id only one succeeds.
C3_CloseReplaceConditioned ==
    [][\A p \in Procs :
        (pc[p] = "close_replace" /\ pc'[p] = "idle" /\ res'.kind = "ok")
            => StoredStatus(call[p].params.sessionId) = {"active"}]_vars

\* C4: a close called on a session stored as closed is rejected with
\* AlreadyClosed and leaves the store as it was: it never goes on to its
\* computation, whatever amount, outcomes and justification it is given.
C4_CloseOfClosedRejected ==
    [][/\ \A p \in Procs :
            (pc[p] = "idle" /\ pc'[p] = "close_orders")
                => StoredStatus(call'[p].params.sessionId) = {"active"}
       /\ (/\ pc' = pc /\ res' # res /\ res'.op = "close"
           /\ StoredStatus(res'.sessionId) = {"closed"})
                => (res'.kind = "AlreadyClosed" /\ posSessions' = posSessions)
      ]_vars

\* a close of a session stored as closed with its justification was rejected
C4_Witness ==
    /\ res.op = "close" /\ res.kind = "AlreadyClosed"
    /\ \E s \in FindById(posSessions, res.sessionId) :
        s.status = "closed" /\ s.cashDeltaJustification = Some("counted error")

ClosedSessions ==
    {posSessions[i] : i \in {j \in 1..Len(posSessions) :
                                posSessions[j].status = "closed"}}

\* |a - b| > 0.01 on numbers
DiffExceedsTolerance(a, b) == DGreater(DAbs(DSub(a, b)), Number(1))

\* C5: every stored closed session whose declared and theoretical closing
\* amounts differ by more than 0.01 has a non-empty justification.
C5_DeltaJustified ==
    \A s \in ClosedSessions :
        DiffExceedsTolerance(s.cashClosing[1].amount,
                             s.cashClosingTheoretical[1].amount)
            => (s.cashDeltaJustification # None
                /\ s.cashDeltaJustification # Some(""))

\* a session was closed 20 short of the declared amount, with its motive
C5_Witness ==
    \E s \in ClosedSessions :
        /\ s.cashClosing[1].amount = Number(12000)
        /\ s.cashClosingTheoretical[1].amount = Number(10000)
        /\ s.cashDeltaJustification = Some("counted error")

\* the decimal literal, in hundredths, that a number is the double of
Hundredths(x) == CHOOSE c \in {1000 * k : k \in 0..30} \cup {11999} : Number(c) = x

AbsInt(n) == IF n < 0 THEN -n ELSE n

\* C6: with the mandatory setting on, a close given no justification is
\* rejected with JustificationRequired exactly when the declared and the
\* theoretical closing amounts differ by more than 0.01; a difference of
\* exactly 0.01 (119.99 declared, 120 theoretical) closes.
C6_RequiredExactlyAboveOneCent ==
    [][\A p \in Procs :
        (/\ pc[p] = "close_orders" /\ pc'[p] # "close_orders"
         /\ runtimeConfig.posCashDeltaJustificationMandatory
         /\ call[p].params.cashDeltaJustification \in {None, Some("")})
        => LET declared == call[p].params.cashClosing.amount
               theoretical ==
                   CashClosingTheoretical(
                       call[p].session,
                       CalculateDailyIncomes(call[p].session, orders),
                       call[p].params.outcomes).amount
           IN  (pc'[p] = "idle" /\ res'.kind = "JustificationRequired")
                   <=> AbsInt(Hundredths(declared) - Hundredths(theoretical)) > 1
      ]_vars

\* C7: with the mandatory setting off, no close is rejected with
\* JustificationRequired.
C7_FlagOffNeverRequired ==
    ~runtimeConfig.posCashDeltaJustificationMandatory
        => res.kind # "JustificationRequired"

\* the amount of a payment method in a stored income list, 0 when absent
IncomeOf(method, incomes) ==
    LET hits == {i \in 1..Len(incomes) : incomes[i].paymentMethod = method}
    IN  IF hits = {} THEN Number(0) ELSE incomes[CHOOSE i \in hits : TRUE].amount

RECURSIVE OutcomeSum(_)
OutcomeSum(outcomes) ==
    IF outcomes = <<>> THEN Number(0)
    ELSE DAdd(OutcomeSum(SubSeq(outcomes, 1, Len(outcomes) - 1)),
              outcomes[Len(outcomes)].amount)

\* C8: every stored closed session has theoretical = opening + cash income
\* - sum of outcomes and delta = declared - theoretical.
C8_TheoreticalAndDelta ==
    \A s \in ClosedSessions :
        /\ s.cashClosingTheoretical[1].amount =
              DSub(DAdd(s.cashOpening.amount,
                        IncomeOf("point-of-sale", s.dailyIncomes)),
                   OutcomeSum(s.dailyOutcomes))
        /\ s.cashDelta[1].amount =
              DSub(s.cashClosing[1].amount, s.cashClosingTheoretical[1].amount)

\* opening 100, cash income 50 beside a card income, outcomes [30]:
\* theoretical 120
C8_Witness ==
    \E s \in ClosedSessions :
        /\ s.cashOpening.amount = Number(10000)
        /\ IncomeOf("point-of-sale", s.dailyIncomes) = Number(5000)
        /\ Len(s.dailyIncomes) = 2
        /\ Len(s.dailyOutcomes) = 1 /\ s.dailyOutcomes[1].amount = Number(3000)
        /\ s.cashClosingTheoretical[1].amount = Number(12000)
        /\ s.cashDelta[1].amount = Number(0)

IsPrefix(a, b) == Len(a) <= Len(b) /\ SubSeq(b, 1, Len(a)) = a

\* C9: calls running one at a time, the store changes a session's X ticket
\* log only when a generateXTicket call on it completes, and then by one
\* entry appended (a time of the call, its operator), earlier entries kept,
\* status left active, no closing field set, nothing else changed but
\* updatedAt; so n successful calls leave a log of length n.
C9_XTicketAppendsOne ==
    [][\A i \in 1..Len(posSessions) :
        LET old == posSessions[i]
            new == posSessions'[i]
            done == {p \in Procs : /\ pc[p] = "xticket_update" /\ pc'[p] = "idle"
                                   /\ call[p].params.sessionId = old._id}
        IN  IF done = {}
            THEN new.xTickets = old.xTickets
            ELSE /\ res'.kind = "ok"
                 /\ Len(new.xTickets) = Len(old.xTickets) + 1
                 /\ IsPrefix(old.xTickets, new.xTickets)
                 /\ \A p \in done :
                        LET e == new.xTickets[Len(new.xTickets)]
                        IN  /\ e.generatedBy = call[p].params.user
                            /\ e.generatedAt \in old.openedAt..now
                 /\ new.status = "active"
                 /\ new.closedAt = None /\ new.closedBy = None
                 /\ new.cashClosing = None /\ new.cashClosingTheoretical = None
                 /\ new.cashDelta = None /\ new.cashDeltaJustification = None
                 /\ new = [old EXCEPT !.xTickets = new.xTickets,
                                      !.updatedAt = new.updatedAt]
      ]_vars

\* two X tickets were generated on one active session
C9_Witness ==
    /\ res.op = "xticket" /\ res.kind = "ok"
    /\ \E s \in FindById(posSessions, res.sessionId) :
        s.status = "active" /\ Len(s.xTickets) = 2

\* C10: no step removes or changes an entry of a stored X ticket log: the
\* log before the step is a prefix of the log after it.
C10_LogOnlyGrows ==
    [][\A i \in 1..Len(posSessions) :
        IsPrefix(posSessions[i].xTickets, posSessions'[i].xTickets)]_vars

\* C11: an X ticket entry is only appended to a session stored as active at
\* the moment of the append, whatever close runs beside the call: the
\* updateOne of a generateXTicket call completes only on a session whose
\* stored status is active.
C11_AppendOnlyToActive ==
    [][\A p \in Procs :
        (pc[p] = "xticket_update" /\ pc'[p] = "idle")
            => StoredStatus(call[p].params.sessionId) = {"active"}]_vars

\* the payments an income computation has to count, as <<order, payment>>
\* positions: paid payments of paid orders created at or after the opening
CountedPayments(session, ords) ==
    UNION {{<<i, j>> : j \in {k \in 1..Len(ords[i].payments) :
                                 ords[i].payments[k].status = "paid"}} :
           i \in {k \in 1..Len(ords) : /\ ords[k].status = "paid"
                                       /\ ords[k].createdAt >= session.openedAt}}

CountedOf(method, session, ords) ==
    {x \in CountedPayments(session, ords) :
        ords[x[1]].payments[x[2]].method = method}

\* the sum of the amounts at a set of positions, taken in their order
RECURSIVE SumOfPayments(_, _)
SumOfPayments(positions, ords) ==
    IF positions = {} THEN Number(0)
    ELSE LET last == CHOOSE x \in positions : \A y \in positions :
                        y[1] < x[1] \/ (y[1] = x[1] /\ y[2] <= x[2])
         IN  DAdd(SumOfPayments(positions \ {last}, ords),
                  ords[last[1]].payments[last[2]].price.amount)

\* the arithmetic sum of the amounts at a set of positions, in hundredths
RECURSIVE CentsOfPayments(_, _)
CentsOfPayments(positions, ords) ==
    IF positions = {} THEN 0
    ELSE LET x == CHOOSE y \in positions : TRUE
         IN  CentsOfPayments(positions \ {x}, ords)
                + ToFixed2(ords[x[1]].payments[x[2]].price.amount)

RECURSIVE IncomeTotal(_)
IncomeTotal(incomes) ==
    IF incomes = <<>> THEN Number(0)
    ELSE DAdd(IncomeTotal(SubSeq(incomes, 1, Len(incomes) - 1)),
              incomes[Len(incomes)].amount)

PaymentMethods == {"point-of-sale", "card"}

\* C12: the incomes computed for a session hold, for each payment method,
\* one entry with the sum of exactly the paid payments of the paid orders
\* created at or after the opening, and no entry for a method without such
\* a payment. The entry is the sum of those amounts added in payment order
\* as numbers, which is their arithmetic sum to the cent; the total over the
\* methods is, to the cent, the arithmetic sum of all such payments.
C12_IncomesArePaidSinceOpening ==
    [][\A p \in Procs :
        (pc[p] = "xticket_orders" /\ pc'[p] = "xticket_update")
        => LET session == call[p].session
               incomes == call'[p].incomesMap
           IN  /\ \A m \in PaymentMethods :
                    LET counted == CountedOf(m, session, orders)
                        entries == {i \in 1..Len(incomes) :
                                        incomes[i].paymentMethod = m}
                    IN  IF counted = {} THEN entries = {}
                        ELSE /\ Cardinality(entries) = 1
                             /\ \A i \in entries :
                                  /\ incomes[i].amount =
                                        SumOfPayments(counted, orders)
                                  /\ ToFixed2(incomes[i].amount) =
                                        CentsOfPayments(counted, orders)
               /\ \A i \in 1..Len(incomes) :
                    incomes[i].paymentMethod \in PaymentMethods
               /\ ToFixed2(IncomeTotal(incomes)) =
                    CentsOfPayments(CountedPayments(session, orders), orders)
      ]_vars

\* an order paid before the opening and one paid after it with a pending
\* payment: the incomes are card 0.10 and point-of-sale 0.60, the latter a
\* sum that rounded (0.6000000000000001), and the total over the methods
\* is not the number the payments add up to in their own order
C12_Witness ==
    \E p \in Procs :
        /\ pc[p] = "xticket_update"
        /\ Len(orders) = 2
        /\ orders[1].status = "paid"
        /\ orders[1].createdAt < call[p].session.openedAt
        /\ orders[2].createdAt >= call[p].session.openedAt
        /\ \E j \in 1..Len(orders[2].payments) :
                orders[2].payments[j].status = "pending"
        /\ Len(call[p].incomesMap) = 2
        /\ IncomeOf("card", call[p].incomesMap) = Number(10)
        /\ IncomeOf("point-of-sale", call[p].incomesMap) # Number(60)
        /\ ToFixed2(IncomeOf("point-of-sale", call[p].incomesMap)) = 60
        /\ IncomeTotal(call[p].incomesMap) #
                SumOfPayments(CountedPayments(call[p].session, orders), orders)

\* a call completes in the step
CallCompletes ==
    res' # res \/ \E p \in Procs : pc[p] # "idle" /\ pc'[p] = "idle"

NoClosingField(s) ==
    /\ s.closedAt = None /\ s.closedBy = None
    /\ s.cashClosing = None /\ s.cashClosingTheoretical = None
    /\ s.cashDelta = None

\* C13: a call that is rejected leaves the store as it was: a rejected open
\* inserts nothing, a rejected X ticket appends nothing, and a close
\* rejected for its missing justification leaves its session active, with
\* no closing field set.
C13_RejectionLeavesStore ==
    [][(CallCompletes /\ res'.kind # "ok")
        => /\ posSessions' = posSessions
           /\ (res'.op = "close" /\ res'.kind = "JustificationRequired")
                => \A s \in FindById(posSessions', res'.sessionId) :
                        s.status = "active" /\ NoClosingField(s)
      ]_vars

\* a close was rejected for its missing justification, on a session that
\* holds an X ticket
C13_Witness ==
    /\ res.op = "close" /\ res.kind = "JustificationRequired"
    /\ \E s \in FindById(posSessions, res.sessionId) :
        s.status = "active" /\ s.xTickets # <<>>

\* C14: the status of a stored session only moves from active to closed:
\* no step deletes a session or makes a closed session anything but closed.
C14_ClosedStaysClosed ==
    [][/\ Len(posSessions') >= Len(posSessions)
       /\ \A i \in 1..Len(posSessions) :
            /\ posSessions'[i]._id = posSessions[i]._id
            /\ posSessions'[i].status \in {"active", "closed"}
            /\ posSessions[i].status = "closed"
                => posSessions'[i].status = "closed"
      ]_vars

\* an X ticket call that read the session as active completed its update
\* after the close of the session
C14_Witness ==
    /\ res.op = "xticket" /\ res.kind = "ok"
    /\ \E s \in FindById(posSessions, res.sessionId) :
        s.status = "closed" /\ s.xTickets # <<>>

\* what a close writes on a session
ClosingRecord(s) ==
    <<s.closedAt, s.closedBy, s.cashClosing, s.cashClosingTheoretical,
      s.cashDelta, s.cashDeltaJustification, s.dailyIncomes, s.dailyOutcomes>>

\* C15: once a session is stored as closed, its incomes, outcomes and
\* closing fields keep the values written by the close that closed it: no
\* later step changes them.
C15_ClosedSnapshotKept ==
    [][\A i \in 1..Len(posSessions) :
        posSessions[i].status = "closed"
            => ClosingRecord(posSessions'[i]) = ClosingRecord(posSessions[i])
      ]_vars

AllClosingFields(s) ==
    /\ s.closedAt # None /\ s.closedBy # None
    /\ s.cashClosing # None /\ s.cashClosingTheoretical # None
    /\ s.cashDelta # None

\* C16: the closing fields closedAt, closedBy, cashClosing,
\* cashClosingTheoretical and cashDelta of a stored session are all set when
\* its status is closed and all unset when it is active; a session enters
\* the store active, with none of them and with empty incomes, outcomes and
\* X ticket log; the step that makes a session closed sets them all.
C16_ClosingFieldsIffClosed ==
    [][/\ \A i \in 1..Len(posSessions') :
            IF posSessions'[i].status = "closed"
            THEN AllClosingFields(posSessions'[i])
            ELSE posSessions'[i].status = "active"
                    /\ NoClosingField(posSessions'[i])
       /\ \A i \in (Len(posSessions) + 1)..Len(posSessions') :
            /\ posSessions'[i].status = "active"
            /\ NoClosingField(posSessions'[i])
            /\ posSessions'[i].dailyIncomes = <<>>
            /\ posSessions'[i].dailyOutcomes = <<>>
            /\ posSessions'[i].xTickets = <<>>
       /\ \A i \in 1..Len(posSessions) :
            (posSessions[i].status = "active" /\ NoClosingField(posSessions[i])
             /\ posSessions'[i].status = "closed")
                => AllClosingFields(posSessions'[i])
      ]_vars

\* a close completed on a session that held an X ticket
C16_Witness ==
    /\ res.op = "close" /\ res.kind = "ok"
    /\ \E s \in FindById(posSessions, res.sessionId) :
        /\ s.status = "closed" /\ AllClosingFields(s)
        /\ s.closedBy = Some(Bob) /\ s.xTickets # <<>>

\* C17: the text returned by an X ticket call names, on its current time
\* line, the operator who generated the ticket (the user of the call, the
\* one written in the log entry), also when another operator opened the
\* session; its opening line names the operator who opened it.
C17_TicketNamesGenerator ==
    [][\A p \in Procs :
        (pc[p] = "xticket_update" /\ pc'[p] = "idle")
        => /\ res'.text.currentBy = DisplayName(call[p].params.user)
           /\ res'.text.currentBy = DisplayName(call[p].entry.generatedBy)
           /\ res'.text.openingBy = DisplayName(call[p].session.openedBy)
      ]_vars

\* a posted amount that is no number (null, or a text without any digit),
\* or a negative one (a minus sign before a digit other than 0)
HasChar(t, set) == \E i \in 1..Len(t) : CharAt(t, i) \in set

NonNumericOrNegative(v) ==
    \/ v = FormNull
    \/ v # FormNull /\ ~HasChar(v.t, {CharAt("0123456789", i) : i \in 1..10})
    \/ v # FormNull /\ Head(TrimStart(v.t) \o " ") = "-"
          /\ HasChar(v.t, {CharAt("123456789", i) : i \in 1..9})

BadAmounts(form) ==
    \/ NonNumericOrNegative(form.cashClosingAmount)
    \/ NonNumericOrNegative(form.bankDepositAmount)

\* C18: a close request whose closing amount or bank deposit amount is not
\* a number or is negative is rejected with InvalidInput before
\* closePosSession is called: it never reaches closePosSession's
\* computation, and on a stored session it completes with InvalidInput, the
\* store left as it was.
C18_InvalidAmountsRejected ==
    [][\A p \in Procs :
        /\ (pc[p] = "idle" /\ pc'[p] = "close_orders"
            /\ "form" \in DOMAIN call'[p])
            => ~BadAmounts(call'[p].form)
        /\ (/\ pc[p] = "idle" /\ pc'[p] = "idle" /\ res' # res
            /\ "sessionId" \in DOMAIN res' /\ "form" \in DOMAIN res'
            /\ FindById(posSessions, res'.sessionId) # {}
            /\ BadAmounts(res'.form))
            => (res'.kind = "InvalidInput" /\ posSessions' = posSessions)
      ]_vars

\* the paid payments recorded so far, in hundredths
RECURSIVE PaidTotal(_)
PaidTotal(ords) ==
    IF ords = <<>> THEN 0
    ELSE PaidTotal(Tail(ords)) +
         (IF Head(ords).status = "paid"
          THEN ToFixed2(SumAmounts(DZero,
                   [i \in 1..Len(Head(ords).payments) |->
                        IF Head(ords).payments[i].status = "paid"
                        THEN Head(ords).payments[i].price
                        ELSE Money(0, "EUR")]))
          ELSE 0)

\* the incomes stored in the closed sessions, in hundredths
RECURSIVE SnapshotTotal(_)
SnapshotTotal(sessions) ==
    IF sessions = <<>> THEN 0
    ELSE SnapshotTotal(Tail(sessions)) +
         (IF Head(sessions).status = "closed"
          THEN ToFixed2(SumAmounts(DZero, Head(sessions).dailyIncomes))
          ELSE 0)

\* C19: no paid payment is counted in the stored incomes of two closed
\* sessions: the incomes stored in the closed sessions add up to no more
\* than the paid payments recorded.
C19_PaymentCountedOnce == SnapshotTotal(posSessions) <= PaidTotal(orders)

\* C20: session periods never overlap: of two stored sessions, the one
\* opened earlier is closed, and was closed no later than the other was
\* opened.
C20_PeriodsNeverOverlap ==
    \A i, j \in 1..Len(posSessions) :
        posSessions[i].openedAt < posSessions[j].openedAt
            => /\ posSessions[i].status = "closed"
               /\ posSessions[i].closedAt[1] <= posSessions[j].openedAt

====
